---- MODULE Spec2Model ----
(***************************************************************************)
(* Kindergarten Flashcards (src/src/App.jsx): the App component's state,   *)
(* its event handlers and effects, and the shuffleArray helper.            *)
(*                                                                         *)
(* Array positions keep the source's 0-based numbering: queue holds        *)
(* 0-based indices into deck.cards and currentIdx / testIdx are 0-based    *)
(* positions; At(s, i) reads position i of a TLA+ sequence.                *)
(*                                                                         *)
(* Modelled: practice mode, test mode, navigation between the home, mode,  *)
(* practice, test, results and editor screens, the cast session listener,  *)
(* the startup load, and the deck editor with its remote calls (addDeck,   *)
(* startEditDeck, the draft handlers, saveDraft, discardDraft, deleteDeck).*)
(***************************************************************************)
EXTENDS Integers, Sequences, FiniteSets, TLC

VARIABLES
    decks,          \* useLocalStorageState(LS_KEY, STARTER_DECKS)
    screen,         \* "home" | "mode" | "practice" | "test" | "results"
    activeDeckId,
    castSession,
    isCasting,
    queue,          \* practice state
    currentIdx,
    showBack,
    stats,
    testQueue,      \* test state
    testIdx,
    testScore,
    server,         \* the deck store behind GET/POST /decks
    mountDecks,     \* `decks` as captured by the startup effect's closure
    loadPc,         \* position of the startup load effect
    sent,           \* messages handed to castSession.sendMessage by the last step
    last,           \* history: the handler that ran last and its argument
    testLog,        \* history: the deck size at startTest and the answerTest calls since
    tracked,        \* history: one answered practice card, followed until it is current again
    draftDeck,      \* the editor's working copy, NoDeck when there is none
    isNewDeck,
    pending,        \* remote calls of saveDraft / deleteDeck awaiting their reply
    issued,         \* number of such remote calls made so far
    nextUid,        \* number of uid() calls made so far
    shuffleIn,      \* shuffleArray exercised alone: the caller's array
    shuffleOut      \* shuffleArray exercised alone: <<the returned array>>, once called

vars == <<decks, screen, activeDeckId, castSession, isCasting, queue, currentIdx,
          showBack, stats, testQueue, testIdx, testScore, server, mountDecks,
          loadPc, sent, last, testLog, tracked, draftDeck, isNewDeck, pending,
          issued, nextUid,
          shuffleIn, shuffleOut>>

practiceVars == <<queue, currentIdx, showBack, stats>>
testVars == <<testQueue, testIdx, testScore>>
loadVars == <<server, mountDecks, loadPc>>
shuffleVars == <<shuffleIn, shuffleOut>>
editorVars == <<draftDeck, isNewDeck, pending, issued, nextUid>>

----------------------------------------------------------------------------
\* Bounds of the model

MaxCards == 4       \* largest deck of a practice-only run
MaxAppCards == 1    \* largest deck of a whole-application run
MaxTestCards == 2   \* largest deck of a run of test sessions
MaxSeen == 3        \* nextPractice calls counted by stats.seen in one session
MaxShuffle == 5     \* longest array given to shuffleArray on its own
MaxCalls == 3       \* answerTest calls made on one test state when handlers are called directly
MaxDraftCards == 2  \* cards in the editor's draft
MaxUids == 3        \* uid() calls in one run
MaxRemote == 1      \* remote calls of saveDraft / deleteDeck in one run
MaxInFlight == 2    \* remote calls of saveDraft in a run with calls in flight together

----------------------------------------------------------------------------
\* Values

Null == "null"
Undefined == "undefined"

Min(a, b) == IF a < b THEN a ELSE b
Max(a, b) == IF a > b THEN a ELSE b

At(s, i) == IF i >= 0 /\ i < Len(s) THEN s[i + 1] ELSE Undefined

\* Cards and decks; ids are strings. NoDeck is the null a failed lookup gives,
\* NoCard the undefined an out-of-range cards[...] gives.
Card(k) == [id |-> ToString(k), front |-> "w"]
Deck(k, n) == [id |-> ToString(k), name |-> "Deck", cards |-> [c \in 1..n |-> Card(c)]]
NoDeck == [id |-> Null]
NoCard == [id |-> Undefined]

\* activeDeck.cards.map((_, i) => i)
Indices(n) == [k \in 1..n |-> k - 1]

----------------------------------------------------------------------------
\* Helpers

clamp(n, min, max) == Max(min, Min(max, n))

\* One value of Math.floor(Math.random() * (i + 1)) for each i of the loop.
RandomChoices(n) ==
    {r \in [1..(n - 1) -> 0..(n - 1)] : \A i \in 1..(n - 1) : r[i] <= i}

\* Faulty variant of Swap (a[j] is not written), for mutation analysis.
SwapBroken(a, i, j) == [a EXCEPT ![i + 1] = a[j + 1]]

\* [a[i], a[j]] = [a[j], a[i]]
Swap(a, i, j) == [a EXCEPT ![i + 1] = a[j + 1], ![j + 1] = a[i + 1]]

\* The for loop of shuffleArray over the heap h: it writes the object a only.
RECURSIVE ShuffleLoop(_, _, _)
ShuffleLoop(h, i, rnd) ==
    IF i > 0
    THEN ShuffleLoop([h EXCEPT !.a = Swap(h.a, i, rnd[i])], i - 1, rnd)
    ELSE h

\* Faulty variant of ShuffleCall (a = arr, no slice(): the loop writes the
\* caller's array), for mutation analysis.
ShuffleCallAliased(arr, rnd) ==
    LET h == ShuffleLoop([arr |-> arr, a |-> arr], Len(arr) - 1, rnd)
    IN  [arr |-> h.a, a |-> h.a]

\* shuffleArray(arr) with the random choices rnd: the caller's array `arr` and
\* the copy `a = arr.slice()` are two objects; the result holds both after the
\* call, `a` being the returned one.
ShuffleCall(arr, rnd) ==
    ShuffleLoop([arr |-> arr, a |-> arr], Len(arr) - 1, rnd)

shuffleArray(arr, rnd) == ShuffleCall(arr, rnd).a

\* decks.find((d) => d.id === id) || null
FindDeck(ds, id) ==
    IF \E k \in 1..Len(ds) : ds[k].id = id
    THEN ds[CHOOSE k \in 1..Len(ds) :
                /\ ds[k].id = id
                /\ \A m \in 1..(k - 1) : ds[m].id # id]
    ELSE NoDeck

\* deck.cards[k]
CardAt(deck, k) == IF k >= 0 /\ k < Len(deck.cards) THEN deck.cards[k + 1] ELSE NoCard

activeDeck == FindDeck(decks, activeDeckId)

\* activeDeck && queue.length ? activeDeck.cards[queue[currentIdx]] : null;
\* NoCard stands for both null and undefined (no card to show).
currentCard ==
    IF activeDeck # NoDeck /\ Len(queue) > 0
    THEN CardAt(activeDeck, At(queue, currentIdx))
    ELSE NoCard

\* activeDeck && testQueue.length ? activeDeck.cards[testQueue[testIdx]] : null
currentTestCard ==
    IF activeDeck # NoDeck /\ Len(testQueue) > 0
    THEN CardAt(activeDeck, At(testQueue, testIdx))
    ELSE NoCard

\* {screen === "practice" && activeDeck && ...}: the practice screen is rendered
InPractice == screen = "practice" /\ activeDeck # NoDeck

\* {screen === "test" && activeDeck && ...}: the test screen is rendered
InTest == screen = "test" /\ activeDeck # NoDeck

\* q.splice(i, 1): the array without position i, and the removed elements
SpliceOut(q, i) ==
    IF i < Len(q)
    THEN [q |-> SubSeq(q, 1, i) \o SubSeq(q, i + 2, Len(q)), removed |-> <<q[i + 1]>>]
    ELSE [q |-> q, removed |-> <<>>]

\* q.splice(i, 0, x)
SpliceIn(q, i, x) ==
    LET at == Min(i, Len(q))
    IN  SubSeq(q, 1, at) \o <<x>> \o SubSeq(q, at + 1, Len(q))

\* Faulty variant of CardMsg, for mutation analysis: idx is the 0-based position.
CardMsgZeroBased(card, idx, total) ==
    [type |-> "card", card |-> card, showBack |-> FALSE, idx |-> idx - 1, total |-> total]

CardMsg(card, idx, total) ==
    [type |-> "card", card |-> card, showBack |-> FALSE, idx |-> idx, total |-> total]

ResultsMsg(correct, total) ==
    [type |-> "results", score |-> [correct |-> correct, total |-> total]]

\* sendCastMessage(message): sent only when a cast session is held
sendCastMessage(session, message) ==
    IF session # Null THEN <<message>> ELSE <<>>

\* The history record of a step: the handler, its boolean argument (FALSE when
\* it has none) and, for flip, showBack as it was before the call.
Called(op, correct) == [op |-> op, correct |-> correct, was |-> FALSE]

\* The history `tracked`: the card of one nextPractice call, the answer given,
\* the nextPractice calls made since (counted after a wrong answer) and the
\* other cards of the queue that have not been current since. card is -1
\* while no call is followed; NotTracked in the runs that keep no such history.
NotTracked == [card |-> -2, correct |-> FALSE, calls |-> 0, due |-> {}]
NoneTracked == [card |-> -1, correct |-> FALSE, calls |-> 0, due |-> {}]

----------------------------------------------------------------------------
\* Initial states

NoStats == [seen |-> 0, correct |-> 0]
NoScore == [correct |-> 0, total |-> 0]
NoLog == [n |-> 0, calls |-> 0, trues |-> 0, shown |-> <<>>]

\* A stored collection with one deck of each size 0..maxN (deck k has k - 1 cards).
StarterDecks(maxN) == [k \in 1..(maxN + 1) |-> Deck(k, k - 1)]

\* What the deck store may hold when the page loads: nothing, the collection
\* the client holds, or a collection in which decks are missing and one differs.
ServerCollections(maxN) ==
    {<<>>, StarterDecks(maxN), <<Deck(1, maxN)>>}

InitApp(ds, srv) ==
    /\ decks = ds
    /\ screen = "home"
    /\ activeDeckId = Null
    /\ castSession = Null
    /\ isCasting = FALSE
    /\ queue = <<>>
    /\ currentIdx = 0
    /\ showBack = FALSE
    /\ stats = NoStats
    /\ testQueue = <<>>
    /\ testIdx = 0
    /\ testScore = NoScore
    /\ server = srv
    /\ mountDecks = ds
    /\ loadPc = "get"
    /\ sent = <<>>
    /\ last = Called("mount", FALSE)
    /\ testLog = NoLog
    /\ draftDeck = NoDeck
    /\ isNewDeck = FALSE
    /\ pending = <<>>
    /\ issued = 0
    /\ nextUid = 0
    /\ shuffleOut = <<>>

Init ==
    /\ \E srv \in ServerCollections(MaxAppCards) :
          InitApp(StarterDecks(MaxAppCards), srv)
    /\ shuffleIn = <<>>
    /\ tracked = NotTracked

----------------------------------------------------------------------------
\* Practice mode

\* The practice effect, deps [screen, activeDeckId, isCasting], run after a
\* handler that leaves showBack at sb and has sent msgs.
PracticeEffect(sb, msgs) ==
    LET deck == FindDeck(decks', activeDeckId')
        depsChanged == <<screen', activeDeckId', isCasting'>> # <<screen, activeDeckId, isCasting>>
    IN  IF depsChanged /\ screen' = "practice" /\ deck # NoDeck
        THEN \E rnd \in RandomChoices(Len(deck.cards)) :
               LET shuffled == shuffleArray(Indices(Len(deck.cards)), rnd)
               IN  /\ queue' = shuffled
                   /\ currentIdx' = 0
                   /\ showBack' = FALSE
                   /\ stats' = NoStats
                   /\ sent' = msgs \o
                        (IF isCasting' /\ Len(deck.cards) > 0
                         THEN sendCastMessage(castSession',
                                  CardMsg(CardAt(deck, At(shuffled, 0)), 1, Len(shuffled)))
                         ELSE <<>>)
        ELSE /\ UNCHANGED <<queue, currentIdx, stats>>
             /\ showBack' = sb
             /\ sent' = msgs

\* onClick={() => setScreen("practice")}: "Start Practice" on the mode screen,
\* "Go to Practice" on the results screen; both are rendered for an active deck.
StartPractice ==
    /\ screen \in {"mode", "results"}
    /\ activeDeck # NoDeck
    /\ screen' = "practice"
    /\ last' = Called("StartPractice", FALSE)
    /\ UNCHANGED <<decks, activeDeckId, castSession, isCasting>>
    /\ PracticeEffect(showBack, <<>>)
    /\ UNCHANGED <<testVars, loadVars, testLog, shuffleVars, tracked, editorVars>>

\* Faulty variant of Toggle, for mutation analysis: reveal only.
ToggleReveals(b) == TRUE

\* (b) => !b
Toggle(b) == ~b

\* setShowBack((b) => !b), bound to the card and the "Reveal" button of the
\* practice screen.
flip ==
    /\ InPractice
    /\ showBack' = Toggle(showBack)
    /\ sent' = <<>>
    /\ last' = [Called("flip", FALSE) EXCEPT !.was = showBack]
    /\ UNCHANGED <<decks, screen, activeDeckId, castSession, isCasting, queue,
                   currentIdx, stats, testVars, loadVars, testLog, shuffleVars, tracked, editorVars>>

\* Faulty variant of shuffleNow, for mutation analysis: the shuffle restarts
\* the session's stats.
shuffleNowRestarts ==
    /\ InPractice
    /\ \E rnd \in RandomChoices(Len(activeDeck.cards)) :
          queue' = shuffleArray(Indices(Len(activeDeck.cards)), rnd)
    /\ currentIdx' = 0
    /\ showBack' = FALSE
    /\ stats' = NoStats
    /\ sent' = <<>>
    /\ last' = Called("shuffleNow", FALSE)
    /\ UNCHANGED <<decks, screen, activeDeckId, castSession, isCasting,
                   testVars, loadVars, testLog, shuffleVars, tracked, editorVars>>

shuffleNow ==
    /\ InPractice
    /\ \E rnd \in RandomChoices(Len(activeDeck.cards)) :
          queue' = shuffleArray(Indices(Len(activeDeck.cards)), rnd)
    /\ currentIdx' = 0
    /\ showBack' = FALSE
    /\ sent' = <<>>
    /\ last' = Called("shuffleNow", FALSE)
    /\ UNCHANGED <<decks, screen, activeDeckId, castSession, isCasting, stats,
                   testVars, loadVars, testLog, shuffleVars, tracked, editorVars>>

\* Faulty variants of Reinsert, for mutation analysis: always push, always
\* reinsert two later, never reinsert.
ReinsertAtEnd(q, idx, correct) ==
    LET out == SpliceOut(q, idx)
        cur == IF out.removed = <<>> THEN Undefined ELSE out.removed[1]
    IN  out.q \o <<cur>>
ReinsertTwoLater(q, idx, correct) ==
    LET out == SpliceOut(q, idx)
        cur == IF out.removed = <<>> THEN Undefined ELSE out.removed[1]
    IN  SpliceIn(out.q, clamp(idx + 2, 0, Len(out.q)), cur)
ReinsertDropped(q, idx, correct) == SpliceOut(q, idx).q

\* The queue nextPractice(correct) builds from queue q at position idx:
\* const [cur] = q.splice(idx, 1), then q.push(cur) or
\* q.splice(clamp(idx + 2, 0, q.length), 0, cur).
Reinsert(q, idx, correct) ==
    LET out == SpliceOut(q, idx)
        cur == IF out.removed = <<>> THEN Undefined ELSE out.removed[1]
    IN  IF correct
        THEN out.q \o <<cur>>
        ELSE SpliceIn(out.q, clamp(idx + 2, 0, Len(out.q)), cur)

\* Faulty variant of NextStats, for mutation analysis.
NextStatsAllCorrect(s, correct) == [seen |-> s.seen + 1, correct |-> s.correct + 1]

\* setStats((s) => ({ seen: s.seen + 1, correct: s.correct + (correct ? 1 : 0) }))
NextStats(s, correct) ==
    [seen |-> s.seen + 1, correct |-> s.correct + (IF correct THEN 1 ELSE 0)]

\* Faulty variant of NewIdx, for mutation analysis: the position advances.
NewIdxAdvances(idx, q) == IF idx + 1 >= Len(q) THEN 0 ELSE idx + 1

\* const newIdx = currentIdx >= q.length ? 0 : currentIdx
NewIdx(idx, q) == IF idx >= Len(q) THEN 0 ELSE idx

\* The cards of the queue q
CardsOf(q) == {q[k] : k \in 1..Len(q)}

\* The history after a nextPractice call that answered card cur and left the
\* queue q at position newIdx: the call is the one followed from now on, or
\* the call followed so far still is, unless its card was current again.
TrackedNext(cur, correct, q, newIdx) ==
    IF tracked = NotTracked THEN {NotTracked}
    ELSE {[card |-> cur, correct |-> correct, calls |-> 0,
           due |-> CardsOf(q) \ {cur, At(q, newIdx)}]}
         \cup
         {IF tracked = NoneTracked \/ tracked.card = At(queue, currentIdx)
          THEN NoneTracked
          ELSE [tracked EXCEPT
                   !.calls = IF tracked.correct THEN 0 ELSE Min(@ + 1, MaxCards),
                   !.due = @ \ {At(q, newIdx)}]}

\* The handler with the counters of stats left at counted: its own guard is
\* if (!activeDeck || queue.length === 0) return.
PracticeStep(correct, counted) ==
    /\ last' = Called("nextPractice", correct)
    /\ IF activeDeck = NoDeck \/ queue = <<>>
       THEN /\ sent' = <<>>
            /\ UNCHANGED <<practiceVars, tracked>>
       ELSE LET q == Reinsert(queue, currentIdx, correct)
                newIdx == NewIdx(currentIdx, q)
            IN  /\ queue' = q
                /\ currentIdx' = newIdx
                /\ showBack' = FALSE
                /\ stats' = counted
                /\ tracked' \in TrackedNext(At(queue, currentIdx), correct, q, newIdx)
                /\ sent' = IF isCasting /\ Len(activeDeck.cards) > 0
                           THEN sendCastMessage(castSession,
                                    CardMsg(CardAt(activeDeck, At(q, newIdx)),
                                            newIdx + 1, Len(q)))
                           ELSE <<>>
    /\ UNCHANGED <<decks, screen, activeDeckId, castSession, isCasting,
                   testVars, loadVars, testLog, shuffleVars, editorVars>>

\* The handler, as called by the practice screen's "Try again" / "I knew it"
\* buttons, in a session of at most MaxSeen calls.
nextPractice(correct) ==
    /\ activeDeck = NoDeck \/ queue = <<>> \/ stats.seen < MaxSeen
    /\ PracticeStep(correct, NextStats(stats, correct))

\* The handler in a session of any number of calls: stats is followed up to
\* MaxSeen calls and left alone from then on (the queue does not depend on it).
nextPracticeOn(correct) ==
    PracticeStep(correct, IF stats.seen < MaxSeen THEN NextStats(stats, correct) ELSE stats)

----------------------------------------------------------------------------
\* Test mode

startTest ==
    /\ \/ screen = "mode" /\ activeDeck # NoDeck
       \/ screen = "results"
    /\ last' = Called("startTest", FALSE)
    /\ IF activeDeck = NoDeck
       THEN /\ sent' = <<>>
            /\ UNCHANGED <<screen, showBack, testVars, testLog>>
       ELSE \E rnd \in RandomChoices(Len(activeDeck.cards)) :
              LET indices == shuffleArray(Indices(Len(activeDeck.cards)), rnd)
              IN  /\ testQueue' = indices
                  /\ testIdx' = 0
                  /\ testScore' = [correct |-> 0, total |-> Len(indices)]
                  /\ showBack' = FALSE
                  /\ screen' = "test"
                  /\ testLog' = [n |-> Len(activeDeck.cards), calls |-> 0, trues |-> 0,
                                 shown |-> <<>>]
                  /\ sent' = IF isCasting /\ Len(activeDeck.cards) > 0
                             THEN sendCastMessage(castSession,
                                      CardMsg(CardAt(activeDeck, At(indices, 0)),
                                              1, Len(indices)))
                             ELSE <<>>
    /\ UNCHANGED <<decks, activeDeckId, castSession, isCasting, queue, currentIdx,
                   stats, loadVars, shuffleVars, tracked, editorVars>>

\* Faulty variant of IsLastAnswer (> for >=), for mutation analysis.
IsLastAnswerOff(idx, q) == idx + 1 > Len(q)

\* testIdx + 1 >= testQueue.length: the answer given is the last one.
IsLastAnswer(idx, q) == idx + 1 >= Len(q)

\* Faulty variant of NextTestIdx, for mutation analysis: the position stays.
NextTestIdxStuck(idx) == idx

\* setTestIdx(testIdx + 1)
NextTestIdx(idx) == idx + 1

\* The handler, as called by the test screen's "Wrong" / "Correct" buttons; it
\* has no guard of its own.
answerTest(correct) ==
    /\ last' = Called("answerTest", correct)
    /\ testScore' = [testScore EXCEPT !.correct = @ + (IF correct THEN 1 ELSE 0)]
    /\ testLog' = [testLog EXCEPT !.calls = @ + 1,
                                  !.trues = @ + (IF correct THEN 1 ELSE 0),
                                  !.shown = @ \o <<At(testQueue, testIdx)>>]
    /\ IF IsLastAnswer(testIdx, testQueue)
       THEN /\ screen' = "results"
            /\ sent' = IF isCasting
                       THEN sendCastMessage(castSession,
                                ResultsMsg(testScore.correct + (IF correct THEN 1 ELSE 0),
                                           Len(testQueue)))
                       ELSE <<>>
            /\ UNCHANGED <<testIdx, showBack>>
       ELSE /\ testIdx' = NextTestIdx(testIdx)
            /\ showBack' = FALSE
            /\ sent' = IF isCasting /\ activeDeck # NoDeck /\ Len(activeDeck.cards) > 0
                       THEN sendCastMessage(castSession,
                                CardMsg(CardAt(activeDeck, At(testQueue, testIdx + 1)),
                                        testIdx + 2, Len(testQueue)))
                       ELSE <<>>
            /\ UNCHANGED screen
    /\ UNCHANGED <<decks, activeDeckId, castSession, isCasting, queue, currentIdx,
                   stats, testQueue, loadVars, shuffleVars, tracked, editorVars>>

----------------------------------------------------------------------------
\* Navigation

startModeChooser(deckId) ==
    /\ screen = "home"
    /\ \E k \in 1..Len(decks) : decks[k].id = deckId
    /\ activeDeckId' = deckId
    /\ screen' = "mode"
    /\ last' = Called("startModeChooser", FALSE)
    /\ UNCHANGED <<decks, castSession, isCasting>>
    /\ PracticeEffect(showBack, <<>>)
    /\ UNCHANGED <<testVars, loadVars, testLog, shuffleVars, tracked, editorVars>>

\* Faulty variant of BackTarget, for mutation analysis: Back on the results
\* screen returns to the test.
BackTargetResumes(scr) ==
    IF scr = "mode" THEN "home" ELSE IF scr = "results" THEN "test" ELSE "mode"

\* setScreen(screen === "mode" ? "home" : "mode")
BackTarget(scr) == IF scr = "mode" THEN "home" ELSE "mode"

\* The top bar's Back button on the mode, practice, test and results screens.
BackButton ==
    /\ screen \in {"practice", "test", "results", "mode"}
    /\ screen' = BackTarget(screen)
    /\ last' = Called("BackButton", FALSE)
    /\ UNCHANGED <<decks, activeDeckId, castSession, isCasting>>
    /\ PracticeEffect(IF screen # "mode" THEN FALSE ELSE showBack, <<>>)
    /\ UNCHANGED <<testVars, loadVars, testLog, shuffleVars, tracked, editorVars>>

\* onClick={() => setScreen("mode")}: "Back to Deck" on the results screen.
BackToDeck ==
    /\ screen = "results"
    /\ screen' = "mode"
    /\ last' = Called("BackToDeck", FALSE)
    /\ UNCHANGED <<decks, activeDeckId, castSession, isCasting>>
    /\ PracticeEffect(showBack, <<>>)
    /\ UNCHANGED <<testVars, loadVars, testLog, shuffleVars, tracked, editorVars>>

----------------------------------------------------------------------------
\* Casting

CastSessions == {Null, "tv"}

\* SESSION_STATE_CHANGED with castContext.getCurrentSession() = session
sessionChanged(session) ==
    /\ castSession' = session
    /\ isCasting' = (session # Null)
    /\ last' = Called("sessionChanged", FALSE)
    /\ UNCHANGED <<decks, screen, activeDeckId>>
    /\ PracticeEffect(showBack, <<>>)
    /\ UNCHANGED <<testVars, loadVars, testLog, shuffleVars, tracked, editorVars>>

----------------------------------------------------------------------------
\* Startup load: GET /decks, seed an empty store, GET /decks again

\* api("GET", "/decks") has answered: null on failure, else the stored list.
LoadReply(ok) ==
    /\ loadPc = "get"
    /\ IF ~ok
       THEN loadPc' = "done" /\ UNCHANGED decks
       ELSE IF Len(server) > 0
            THEN loadPc' = "done" /\ decks' = server
            ELSE loadPc' = "seed" /\ UNCHANGED decks
    /\ last' = Called("LoadReply", ok)
    /\ sent' = <<>>
    /\ UNCHANGED <<screen, activeDeckId, castSession, isCasting, practiceVars,
                   testVars, server, mountDecks, testLog, shuffleVars, tracked, editorVars>>

\* The subsequence of s at the positions in keep.
RECURSIVE Select(_, _)
Select(s, keep) ==
    IF s = <<>> THEN <<>>
    ELSE Select(SubSeq(s, 1, Len(s) - 1), keep)
           \o (IF Len(s) \in keep THEN <<s[Len(s)]>> ELSE <<>>)

\* Promise.all(decks.map(d => api("POST", "/decks", d))) has settled: the
\* POSTs at the positions in stored succeeded.
SeedPosted(stored) ==
    /\ loadPc = "seed"
    /\ server' = server \o Select(mountDecks, stored)
    /\ loadPc' = "refresh"
    /\ last' = Called("SeedPosted", FALSE)
    /\ sent' = <<>>
    /\ UNCHANGED <<decks, screen, activeDeckId, castSession, isCasting, practiceVars,
                   testVars, mountDecks, testLog, shuffleVars, tracked, editorVars>>

\* The second api("GET", "/decks") has answered.
RefreshReply(ok) ==
    /\ loadPc = "refresh"
    /\ loadPc' = "done"
    /\ decks' = IF ok THEN server ELSE decks
    /\ last' = Called("RefreshReply", ok)
    /\ sent' = <<>>
    /\ UNCHANGED <<screen, activeDeckId, castSession, isCasting, practiceVars,
                   testVars, server, mountDecks, testLog, shuffleVars, tracked, editorVars>>

----------------------------------------------------------------------------
\* The deck editor

\* What is typed into the editor's inputs, step by step.
Names == {" "}
Fronts == {"", "cat"}
Patches == {[back |-> " b "]}

\* The texts of the drafts a save is tried on.
DraftNames == {"", " ", " Zoo ", "Deck"}
DraftFronts == {"", " ", "cat", " dog "}
DraftBacks == {"", " b "}

\* uid(): the k-th identifier handed out; identifiers do not repeat.
Uid(k) == "u" \o ToString(k)

\* String.prototype.trim, for texts whose only white space is the blank.
RECURSIVE TrimStart(_)
TrimStart(s) == IF Len(s) > 0 /\ Head(s) = " " THEN TrimStart(Tail(s)) ELSE s

RECURSIVE TrimEnd(_)
TrimEnd(s) ==
    IF Len(s) > 0 /\ SubSeq(s, Len(s), Len(s)) = " "
    THEN TrimEnd(SubSeq(s, 1, Len(s) - 1))
    ELSE s

trim(s) == TrimEnd(TrimStart(s))

\* c.f: undefined when the object has no property f. (A property that holds
\* undefined and a missing property are not told apart by the editor.)
Prop(c, f) == IF f \in DOMAIN c THEN c[f] ELSE Undefined

\* !v and (v || "") for a text or undefined
Falsy(v) == v = Undefined \/ v = ""
OrEmpty(v) == IF Falsy(v) THEN "" ELSE v

\* (text || "").trim() || undefined
TrimOrUndefined(v) == IF trim(OrEmpty(v)) = "" THEN Undefined ELSE trim(OrEmpty(v))

\* { id: newId, front: "", back: "", hint: "" }
BlankCard(id) == [id |-> id, front |-> "", back |-> "", hint |-> ""]

\* cards.findIndex((c) => c.id === cid), 0-based, -1 when there is none
FindIndex(cards, cid) ==
    IF \E k \in 1..Len(cards) : cards[k].id = cid
    THEN (CHOOSE k \in 1..Len(cards) :
            /\ cards[k].id = cid
            /\ \A j \in 1..(k - 1) : cards[j].id # cid) - 1
    ELSE -1

\* {screen === "editor" && draftDeck && ...}: the editor screen is rendered
InEditor == screen = "editor" /\ draftDeck # NoDeck

\* "New Deck" on the home screen
addDeck ==
    /\ screen = "home"
    /\ nextUid < MaxUids
    /\ LET newDeck == [id |-> Uid(nextUid + 1), name |-> "New Deck", cards |-> <<>>]
       IN  /\ draftDeck' = newDeck
           /\ activeDeckId' = newDeck.id
    /\ nextUid' = nextUid + 1
    /\ isNewDeck' = TRUE
    /\ screen' = "editor"
    /\ last' = Called("addDeck", FALSE)
    /\ UNCHANGED <<decks, castSession, isCasting>>
    /\ PracticeEffect(showBack, <<>>)
    /\ UNCHANGED <<testVars, loadVars, testLog, shuffleVars, tracked, pending, issued>>

\* "Edit Deck" on the mode and practice screens: startEditDeck(activeDeck.id)
startEditDeck(deckId) ==
    /\ screen \in {"mode", "practice"}
    /\ activeDeck # NoDeck
    /\ deckId = activeDeck.id
    /\ last' = Called("startEditDeck", FALSE)
    /\ IF FindDeck(decks, deckId) = NoDeck
       THEN UNCHANGED <<draftDeck, isNewDeck, screen>>
       ELSE /\ draftDeck' = FindDeck(decks, deckId)
            /\ isNewDeck' = FALSE
            /\ screen' = "editor"
    /\ UNCHANGED <<decks, activeDeckId, castSession, isCasting>>
    /\ PracticeEffect(showBack, <<>>)
    /\ UNCHANGED <<testVars, loadVars, testLog, shuffleVars, tracked, pending, issued, nextUid>>

\* A handler of the editor screen that leaves the draft at draft, having made
\* uids calls to uid().
EditDraft(op, draft, uids) ==
    /\ InEditor
    /\ draftDeck' = draft
    /\ nextUid' = nextUid + uids
    /\ last' = Called(op, FALSE)
    /\ sent' = <<>>
    /\ UNCHANGED <<decks, screen, activeDeckId, castSession, isCasting, practiceVars,
                   testVars, loadVars, testLog, shuffleVars, tracked, isNewDeck, pending, issued>>

\* onChange of the deck name input: setDraftDeck({ ...draftDeck, name: value })
onNameChange(value) ==
    EditDraft("onNameChange", [draftDeck EXCEPT !.name = value], 0)

\* "Add Card": addBlankCard({ focus: true })
addDraftCard ==
    /\ InEditor
    /\ Len(draftDeck.cards) < MaxDraftCards
    /\ nextUid < MaxUids
    /\ EditDraft("addDraftCard",
                 [draftDeck EXCEPT !.cards = @ \o <<BlankCard(Uid(nextUid + 1))>>], 1)

\* deck.cards.some(c => !c.front && !c.back && !c.hint)
HasBlankCard(cards) ==
    \E k \in 1..Len(cards) :
        Falsy(Prop(cards[k], "front")) /\ Falsy(Prop(cards[k], "back"))
            /\ Falsy(Prop(cards[k], "hint"))

\* deck.cards[idx].front = value
FrontTyped(cards, idx, value) == [cards EXCEPT ![idx + 1].front = value]

\* Faulty variant of Appends, for mutation analysis: a blank card is pushed
\* whether or not the draft holds one.
AppendsOnFirstType(cards, idx, value) ==
    Falsy(Prop(cards[idx + 1], "front")) /\ trim(value) # ""

\* wasEmpty && value.trim() && !hasTrailingBlank
Appends(cards, idx, value) ==
    /\ Falsy(Prop(cards[idx + 1], "front"))
    /\ trim(value) # ""
    /\ ~HasBlankCard(FrontTyped(cards, idx, value))

onFrontChange(cid, value) ==
    /\ InEditor
    /\ LET idx == FindIndex(draftDeck.cards, cid)
       IN  IF idx < 0
           THEN EditDraft("onFrontChange", draftDeck, 0)
           ELSE LET typed == FrontTyped(draftDeck.cards, idx, value)
                IN  IF Appends(draftDeck.cards, idx, value)
                    THEN EditDraft("onFrontChange",
                                [draftDeck EXCEPT
                                    !.cards = typed \o <<BlankCard(Uid(nextUid + 1))>>], 1)
                    ELSE EditDraft("onFrontChange", [draftDeck EXCEPT !.cards = typed], 0)

\* { ...c, ...patch }
Patched(c, patch) ==
    [id |-> c.id,
     front |-> c.front,
     back |-> IF "back" \in DOMAIN patch THEN patch.back ELSE Prop(c, "back"),
     hint |-> IF "hint" \in DOMAIN patch THEN patch.hint ELSE Prop(c, "hint")]

updateDraftCard(cid, patch) ==
    EditDraft("updateDraftCard",
              [draftDeck EXCEPT !.cards =
                  [k \in 1..Len(@) |-> IF @[k].id = cid THEN Patched(@[k], patch) ELSE @[k]]],
              0)

removeDraftCard(cid) ==
    EditDraft("removeDraftCard",
              [draftDeck EXCEPT !.cards = SelectSeq(@, LAMBDA c : c.id # cid)], 0)

\* Faulty variant of KeepsCard, for mutation analysis: no card is dropped.
KeepsEveryCard(c) == TRUE

\* .filter((c) => c.front.length > 0)
KeepsCard(c) == Len(c.front) > 0

\* The card saveDraft maps a draft card to; c.id || uid() is c.id, every card
\* of a draft carrying an id.
CleanCard(c) ==
    [id |-> c.id,
     front |-> trim(OrEmpty(Prop(c, "front"))),
     back |-> TrimOrUndefined(Prop(c, "back")),
     hint |-> TrimOrUndefined(Prop(c, "hint"))]

\* const clean = { ...draftDeck, name: ..., cards: ... }
Clean(draft) ==
    [draft EXCEPT
        !.name = IF trim(OrEmpty(@)) = "" THEN "Untitled Deck" ELSE trim(OrEmpty(@)),
        !.cards = SelectSeq([k \in 1..Len(@) |-> CleanCard(@[k])], KeepsCard)]

\* The remote calls in flight, with what the awaiting handler holds: the deck
\* it works on and, for deleteDeck, the activeDeckId of its closure.
SaveCall(clean, isNew) ==
    [op |-> IF isNew THEN "POST" ELSE "PUT", deck |-> clean, active |-> Null]
DeleteCall(deckId, active) ==
    [op |-> "DELETE", deck |-> [id |-> deckId], active |-> active]

\* The array s without its position i (1-based).
RemoveAt(s, i) == SubSeq(s, 1, i - 1) \o SubSeq(s, i + 1, Len(s))

\* "Save changes", up to the await of the remote call
saveDraft ==
    /\ InEditor
    /\ issued' = issued + 1
    /\ pending' = pending \o <<SaveCall(Clean(draftDeck), isNewDeck)>>
    /\ last' = Called("saveDraft", FALSE)
    /\ sent' = <<>>
    /\ UNCHANGED <<decks, screen, activeDeckId, castSession, isCasting, practiceVars,
                   testVars, loadVars, testLog, shuffleVars, tracked, draftDeck, isNewDeck,
                   nextUid>>

\* api(method, path, body): the parsed response, or null when the call failed.
\* The deck store answers a POST with the record it stored, which keeps the id
\* it was sent.
api(ok, response) == IF ok THEN response ELSE NoDeck

\* Faulty variant of SavedId, for mutation analysis: the reply's id is taken
\* without asking whether there is a reply.
SavedIdOfReply(clean, created) == created.id

\* if (created?.id && created.id !== clean.id) clean.id = created.id
SavedId(clean, created) ==
    IF created.id # Null /\ created.id # clean.id THEN created.id ELSE clean.id

\* ds.map((d) => (d.id === clean.id ? clean : d))
Replaced(ds, clean) == [k \in 1..Len(ds) |-> IF ds[k].id = clean.id THEN clean ELSE ds[k]]

\* d.filter((x) => x.id !== deckId)
Removed(ds, deckId) == SelectSeq(ds, LAMBDA x : x.id # deckId)

\* saveDraft from the reply of its remote call on: pending[i] is answered
SaveReply(i, ok) ==
    /\ i \in 1..Len(pending)
    /\ pending[i].op \in {"POST", "PUT"}
    /\ LET call == pending[i]
           created == api(ok, call.deck)
           clean == IF call.op = "POST"
                    THEN [call.deck EXCEPT !.id = SavedId(call.deck, created)]
                    ELSE call.deck
       IN  /\ decks' = IF call.op = "POST"
                       THEN decks \o <<clean>>
                       ELSE Replaced(decks, clean)
           /\ server' = IF ~ok THEN server
                        ELSE IF call.op = "POST" THEN server \o <<call.deck>>
                        ELSE Replaced(server, call.deck)
           /\ activeDeckId' = clean.id
    /\ pending' = RemoveAt(pending, i)
    /\ draftDeck' = NoDeck
    /\ isNewDeck' = FALSE
    /\ screen' = "mode"
    /\ last' = Called("SaveReply", ok)
    /\ UNCHANGED <<castSession, isCasting>>
    /\ PracticeEffect(showBack, <<>>)
    /\ UNCHANGED <<testVars, mountDecks, loadPc, testLog, shuffleVars, tracked, issued, nextUid>>

\* "Discard", and the top bar's Back button on the editor screen once the
\* "Discard changes?" prompt is confirmed
discardDraft ==
    /\ InEditor
    /\ draftDeck' = NoDeck
    /\ isNewDeck' = FALSE
    /\ IF isNewDeck
       THEN activeDeckId' = Null /\ screen' = "home"
       ELSE screen' = "mode" /\ UNCHANGED activeDeckId
    /\ last' = Called("discardDraft", FALSE)
    /\ UNCHANGED <<decks, castSession, isCasting>>
    /\ PracticeEffect(showBack, <<>>)
    /\ UNCHANGED <<testVars, loadVars, testLog, shuffleVars, tracked, pending, issued, nextUid>>

\* "Delete" (offered when the draft is not a new deck), the prompt confirmed,
\* up to the await of the remote call
deleteDeck(deckId) ==
    /\ InEditor
    /\ ~isNewDeck
    /\ deckId = draftDeck.id
    /\ issued' = issued + 1
    /\ pending' = pending \o <<DeleteCall(deckId, activeDeckId)>>
    /\ last' = Called("deleteDeck", FALSE)
    /\ sent' = <<>>
    /\ UNCHANGED <<decks, screen, activeDeckId, castSession, isCasting, practiceVars,
                   testVars, loadVars, testLog, shuffleVars, tracked, draftDeck, isNewDeck,
                   nextUid>>

\* deleteDeck from the reply of its remote call on: pending[i] is answered
DeleteReply(i, ok) ==
    /\ i \in 1..Len(pending)
    /\ pending[i].op = "DELETE"
    /\ LET call == pending[i]
       IN  /\ decks' = Removed(decks, call.deck.id)
           /\ server' = IF ok THEN Removed(server, call.deck.id) ELSE server
           /\ activeDeckId' = IF call.active = call.deck.id THEN Null ELSE activeDeckId
    /\ pending' = RemoveAt(pending, i)
    /\ draftDeck' = NoDeck
    /\ screen' = "home"
    /\ last' = Called("DeleteReply", ok)
    /\ UNCHANGED <<castSession, isCasting>>
    /\ PracticeEffect(showBack, <<>>)
    /\ UNCHANGED <<testVars, mountDecks, loadPc, testLog, shuffleVars, tracked, isNewDeck,
                   issued, nextUid>>

----------------------------------------------------------------------------
\* The application's sessions, navigation, casting and startup load, the deck
\* editor left unused

Next ==
    \/ \E k \in 1..Len(decks) : startModeChooser(decks[k].id)
    \/ BackButton
    \/ BackToDeck
    \/ StartPractice
    \/ flip
    \/ shuffleNow
    \/ \E correct \in BOOLEAN : InPractice /\ nextPractice(correct)
    \/ startTest
    \/ \E correct \in BOOLEAN : InTest /\ answerTest(correct)
    \/ \E session \in CastSessions : sessionChanged(session)
    \/ \E ok \in BOOLEAN : LoadReply(ok)
    \/ \E stored \in SUBSET (1..Len(mountDecks)) : SeedPosted(stored)
    \/ \E ok \in BOOLEAN : RefreshReply(ok)

Spec == Init /\ [][Next]_vars

----------------------------------------------------------------------------
\* A practice session alone: session start, nextPractice, shuffleNow and flip
\* on decks of 0..MaxCards cards.

PracticeInit ==
    /\ InitApp(StarterDecks(MaxCards), <<>>)
    /\ shuffleIn = <<>>
    /\ tracked = NotTracked

PracticeNext ==
    \/ \E k \in 1..Len(decks) : startModeChooser(decks[k].id)
    \/ BackButton
    \/ StartPractice
    \/ flip
    \/ shuffleNow
    \/ \E correct \in BOOLEAN : InPractice /\ nextPractice(correct)

PracticeSpec == PracticeInit /\ [][PracticeNext]_vars

----------------------------------------------------------------------------
\* Test sessions: the application without the practice screen, on decks of
\* 0..MaxTestCards cards.

TestInit ==
    /\ \E srv \in ServerCollections(MaxTestCards) :
          InitApp(StarterDecks(MaxTestCards), srv)
    /\ shuffleIn = <<>>
    /\ tracked = NotTracked

TestNext ==
    \/ \E k \in 1..Len(decks) : startModeChooser(decks[k].id)
    \/ BackButton
    \/ BackToDeck
    \/ startTest
    \/ \E correct \in BOOLEAN : InTest /\ answerTest(correct)
    \/ \E session \in CastSessions : sessionChanged(session)
    \/ \E ok \in BOOLEAN : LoadReply(ok)
    \/ \E stored \in SUBSET (1..Len(mountDecks)) : SeedPosted(stored)
    \/ \E ok \in BOOLEAN : RefreshReply(ok)

TestSpec == TestInit /\ [][TestNext]_vars

----------------------------------------------------------------------------
\* The deck editor: decks chosen, edited, created, saved and deleted, with the
\* replies of the remote calls arriving at any later time.

EditorInit ==
    /\ InitApp(StarterDecks(MaxAppCards), StarterDecks(MaxAppCards))
    /\ shuffleIn = <<>>
    /\ tracked = NotTracked

EditorNext ==
    \/ \E k \in 1..Len(decks) : startModeChooser(decks[k].id)
    \/ BackButton
    \/ StartPractice
    \/ addDeck
    \/ \E k \in 1..Len(decks) : startEditDeck(decks[k].id)
    \/ \E value \in Names : onNameChange(value)
    \/ addDraftCard
    \/ InEditor /\ \E k \in 1..Len(draftDeck.cards), value \in Fronts :
                      /\ Appends(draftDeck.cards, k - 1, value) =>
                            Len(draftDeck.cards) < MaxDraftCards /\ nextUid < MaxUids
                      /\ onFrontChange(draftDeck.cards[k].id, value)
    \/ InEditor /\ \E k \in 1..Len(draftDeck.cards), patch \in Patches :
                      updateDraftCard(draftDeck.cards[k].id, patch)
    \/ InEditor /\ \E k \in 1..Len(draftDeck.cards) :
                      removeDraftCard(draftDeck.cards[k].id)
    \/ issued < MaxRemote /\ saveDraft
    \/ \E i \in 1..Len(pending), ok \in BOOLEAN : SaveReply(i, ok)
    \/ discardDraft
    \/ \E k \in 1..Len(decks) : issued < MaxRemote /\ deleteDeck(decks[k].id)
    \/ \E i \in 1..Len(pending), ok \in BOOLEAN : DeleteReply(i, ok)

EditorSpec == EditorInit /\ [][EditorNext]_vars

----------------------------------------------------------------------------
\* saveDraft, deleteDeck and discardDraft on every draft of up to
\* MaxDraftCards cards: the editor is open on a new deck or on the last deck of
\* the collection, the name and the cards typed in (cards added get the ids
\* uid() hands out); the replies of the remote calls arrive while the editor is
\* open or after the draft was discarded.

DraftCards(first, n) ==
    UNION {{[k \in 1..len |-> [id |-> Uid(first + k), front |-> t[k].front,
                               back |-> t[k].back, hint |-> ""]] :
               t \in [1..len -> [front : DraftFronts, back : DraftBacks]]} :
           len \in 0..n}

SaveInit ==
    /\ decks = StarterDecks(MaxAppCards)
    /\ server = decks
    /\ mountDecks = decks
    /\ loadPc = "done"
    /\ \E isNew \in BOOLEAN :
          LET first == IF isNew THEN 1 ELSE 0
          IN  \E name \in DraftNames, cards \in DraftCards(first, MaxDraftCards) :
                /\ isNewDeck = isNew
                /\ draftDeck = [id |-> IF isNew THEN Uid(1) ELSE decks[Len(decks)].id,
                                name |-> name, cards |-> cards]
                /\ nextUid = first + Len(cards)
    /\ activeDeckId = draftDeck.id
    /\ screen = "editor"
    /\ castSession = Null
    /\ isCasting = FALSE
    /\ queue = <<>>
    /\ currentIdx = 0
    /\ showBack = FALSE
    /\ stats = NoStats
    /\ testQueue = <<>>
    /\ testIdx = 0
    /\ testScore = NoScore
    /\ sent = <<>>
    /\ last = Called("onNameChange", FALSE)
    /\ testLog = NoLog
    /\ pending = <<>>
    /\ issued = 0
    /\ shuffleIn = <<>>
    /\ tracked = NotTracked
    /\ shuffleOut = <<>>

SaveNext ==
    \/ issued < MaxRemote /\ saveDraft
    \/ \E i \in 1..Len(pending), ok \in BOOLEAN : SaveReply(i, ok)
    \/ discardDraft
    \/ \E k \in 1..Len(decks) : issued < MaxRemote /\ deleteDeck(decks[k].id)
    \/ \E i \in 1..Len(pending), ok \in BOOLEAN : DeleteReply(i, ok)

SaveSpec == SaveInit /\ [][SaveNext]_vars

----------------------------------------------------------------------------
\* The session handlers called in any state, whether or not the screen that
\* holds their buttons is rendered: nextPractice and answerTest carry no
\* screen guard.

HandlerNext ==
    \/ \E k \in 1..Len(decks) : startModeChooser(decks[k].id)
    \/ BackButton
    \/ StartPractice
    \/ startTest
    \/ \E correct \in BOOLEAN : nextPractice(correct)
    \/ \E correct \in BOOLEAN : testLog.calls < MaxCalls /\ answerTest(correct)
    \/ \E ok \in BOOLEAN : LoadReply(ok)

HandlerSpec == Init /\ [][HandlerNext]_vars

----------------------------------------------------------------------------
\* shuffleArray alone, on the index lists 0..n-1 for n = 0..MaxShuffle

ShuffleInit ==
    /\ InitApp(StarterDecks(MaxAppCards), <<>>)
    /\ \E n \in 0..MaxShuffle : shuffleIn = Indices(n)
    /\ tracked = NotTracked

\* const shuffled = shuffleArray(shuffleIn), once
ShuffleStep ==
    /\ shuffleOut = <<>>
    /\ \E rnd \in RandomChoices(Len(shuffleIn)) :
          LET h == ShuffleCall(shuffleIn, rnd)
          IN  /\ shuffleIn' = h.arr
              /\ shuffleOut' = <<h.a>>
    /\ UNCHANGED <<decks, screen, activeDeckId, castSession, isCasting, practiceVars,
                   testVars, loadVars, sent, last, testLog, tracked, editorVars>>

ShuffleSpec == ShuffleInit /\ [][ShuffleStep]_vars

----------------------------------------------------------------------------
\* Properties

\* q holds each of 0..n-1 exactly once.
IsPermutation(q, n) ==
    /\ Len(q) = n
    /\ \A k \in 0..(n - 1) : \E p \in 1..n : q[p] = k
    /\ \A p1, p2 \in 1..n : q[p1] = q[p2] => p1 = p2

\* The array q without its position p (0-based).
Without(q, p) == [k \in 1..(Len(q) - 1) |-> IF k <= p THEN q[k] ELSE q[k + 1]]

\* q is the array rest with x put in at position at (0-based), the others in order.
IsInsertion(q, rest, at, x) ==
    /\ Len(q) = Len(rest) + 1
    /\ q[at + 1] = x
    /\ \A k \in 1..Len(rest) : q[IF k <= at THEN k ELSE k + 1] = rest[k]

\* C1: in every state of a practice session on a deck with n cards the queue
\* is a permutation of 0..n-1: length n, no index twice, none missing.
C1_QueueIsPermutation ==
    InPractice => IsPermutation(queue, Len(activeDeck.cards))

C1_Witness ==
    /\ InPractice
    /\ Len(queue) = MaxCards
    /\ last.op = "nextPractice"
    /\ stats.seen = 2
    /\ queue # Indices(MaxCards)

\* C2: a nextPractice call on a non-empty queue keeps the queue's length, so
\* the queue is not empty afterwards; and in a practice session on a non-empty
\* deck the queue is never empty, so nextPractice's guard never stops a call:
\* the session has no terminal state.
C2_LengthConserved ==
    /\ [][(last'.op = "nextPractice" /\ queue # <<>>)
            => (Len(queue') = Len(queue) /\ queue' # <<>>)]_vars
    /\ []((InPractice /\ Len(activeDeck.cards) > 0) => queue # <<>>)

C2_Witness ==
    /\ InPractice
    /\ last.op = "nextPractice"
    /\ stats.seen = MaxSeen
    /\ Len(queue) = MaxCards

\* C3: for the index list 0..n-1, n >= 0, and every outcome of the random
\* choices, shuffleArray returns a permutation of 0..n-1 (the empty list for
\* n = 0) and leaves the list it was given as it was.
C3_ShuffleIsPermutation ==
    shuffleOut # <<>> =>
        /\ IsPermutation(shuffleOut[1], Len(shuffleIn))
        /\ shuffleIn = Indices(Len(shuffleIn))

C3_Witness ==
    /\ shuffleOut # <<>>
    /\ Len(shuffleIn) = MaxShuffle
    /\ shuffleOut[1] # shuffleIn
    /\ shuffleOut[1][1] = 2

\* C4: nextPractice(false) at position p on a queue of length L >= 1 takes
\* out the element cur at p and puts it back at index min(p + 2, L - 1) of the
\* shortened queue, the other elements keeping their order; queue [B,A,C]
\* (<<1, 0, 2>>) at position 0 becomes [A,C,B] with stats {seen:1, correct:0}.
C4_WrongReinsertsTwoLater ==
    [][(last'.op = "nextPractice" /\ ~last'.correct /\ Len(queue) >= 1)
        => /\ IsInsertion(queue', Without(queue, currentIdx),
                          Min(currentIdx + 2, Len(queue) - 1), queue[currentIdx + 1])
           /\ (queue = <<1, 0, 2>> /\ currentIdx = 0 /\ stats = NoStats)
                => (queue' = <<0, 2, 1>> /\ stats' = [seen |-> 1, correct |-> 0])]_vars

C4_Witness ==
    /\ InPractice
    /\ last = Called("nextPractice", FALSE)
    /\ queue = <<1, 2, 0, 3>>
    /\ stats = [seen |-> 1, correct |-> 0]

\* C5: nextPractice(true) at position p on a non-empty queue takes out the
\* element at p and appends it as the last element, the other elements keeping
\* their order.
C5_CorrectAppends ==
    [][(last'.op = "nextPractice" /\ last'.correct /\ Len(queue) >= 1)
        => IsInsertion(queue', Without(queue, currentIdx),
                       Len(queue) - 1, queue[currentIdx + 1])]_vars

C5_Witness ==
    /\ InPractice
    /\ last = Called("nextPractice", TRUE)
    /\ queue = <<1, 2, 3, 0>>
    /\ stats = [seen |-> 1, correct |-> 1]

\* C6: every nextPractice(c) call on a non-empty queue sets showBack to false,
\* adds exactly 1 to stats.seen, and adds 1 to stats.correct when c is true and
\* 0 when c is false.
C6_AdvanceCounts ==
    [][(last'.op = "nextPractice" /\ Len(queue) >= 1)
        => /\ showBack' = FALSE
           /\ stats'.seen = stats.seen + 1
           /\ stats'.correct = stats.correct + (IF last'.correct THEN 1 ELSE 0)]_vars

C6_Witness ==
    /\ InPractice
    /\ last = Called("nextPractice", FALSE)
    /\ stats = [seen |-> 3, correct |-> 2]
    /\ ~showBack

\* C7: while the screen stays on practice for one deck, stats.seen and
\* stats.correct never decrease from one state to the next, whatever event
\* occurs (nextPractice, flip, shuffleNow, a cast session attached or detached,
\* a reply of the startup deck fetch).
C7_StatsNeverDecrease ==
    [][(screen = "practice" /\ screen' = "practice" /\ activeDeckId' = activeDeckId)
        => (stats'.seen >= stats.seen /\ stats'.correct >= stats.correct)]_vars

\* C8: a cast session attached or detached during a practice or test session
\* leaves the session state as it was: practice queue, position, showBack and
\* stats, and test queue, test position and test score.
C8_CastLeavesSession ==
    [][(last'.op = "sessionChanged" /\ screen \in {"practice", "test"})
        => UNCHANGED <<queue, currentIdx, showBack, stats,
                       testQueue, testIdx, testScore>>]_vars

\* C9: in a test session on a deck with n cards each answerTest call raises
\* testIdx by exactly 1 until the n-th answer, which makes the session terminal
\* (screen results); from then on no answerTest call changes testIdx or
\* testScore of that session.
C9_AnswersUntilTerminal ==
    [][(last'.op = "answerTest")
        => IF testLog.calls + 1 < testLog.n
           THEN testIdx' = testIdx + 1 /\ screen' = "test"
           ELSE IF testLog.calls + 1 = testLog.n
           THEN screen' = "results"
           ELSE UNCHANGED <<testIdx, testScore>>]_vars

\* C10: a test session started on a deck with n >= 1 cards is on the results
\* screen after the n-th answerTest call and not before, and the final
\* testScore has total = n and correct = the number of those calls whose
\* argument was true (n = 2, answers true then false: {correct:1, total:2}).
C10_ResultsAfterNthAnswer ==
    testLog.n >= 1 =>
        /\ screen = "test" => testLog.calls < testLog.n
        /\ screen = "results" =>
              /\ testLog.calls = testLog.n
              /\ testScore = [correct |-> testLog.trues, total |-> testLog.n]
        /\ last.op = "answerTest" =>
              (screen = "results" <=> testLog.calls = testLog.n)

C10_Witness ==
    /\ screen = "results"
    /\ last = Called("answerTest", FALSE)
    /\ testLog.n = 2 /\ testLog.calls = 2 /\ testLog.trues = 1
    /\ testScore = [correct |-> 1, total |-> 2]

\* C11: in every state of a test session (test or results screen, after a
\* startTest on a deck of n >= 0 cards) testScore.total = n and
\* 0 <= testScore.correct <= testScore.total.
C11_ScoreBounded ==
    screen \in {"test", "results"} =>
        /\ testScore.total = testLog.n
        /\ 0 <= testScore.correct
        /\ testScore.correct <= testScore.total

\* C12: startTest on a deck with zero cards puts the session on the results
\* screen with score {correct:0, total:0} at once, and the test screen is never
\* shown without a test card to answer.
C12_EmptyTestGoesToResults ==
    /\ [][(last'.op = "startTest" /\ activeDeck # NoDeck /\ Len(activeDeck.cards) = 0)
            => (screen' = "results" /\ testScore' = NoScore)]_vars
    /\ [](InTest => currentTestCard # NoCard)

\* C13: the results screen is entered only by an answerTest call made on the
\* test screen; the test screen is entered (from the results screen or any
\* other) only by startTest, which makes testQueue a permutation of the deck's
\* indices, testIdx 0 and testScore {0, n}: a finished session is not resumed.
C13_TestLifecycle ==
    /\ [][(screen' = "results" /\ screen # "results")
            => (last'.op = "answerTest" /\ screen = "test")]_vars
    /\ [][(screen' = "test" /\ screen # "test")
            => /\ last'.op = "startTest"
               /\ IsPermutation(testQueue', Len(activeDeck.cards))
               /\ testIdx' = 0
               /\ testScore' = [correct |-> 0, total |-> Len(activeDeck.cards)]]_vars

C13_Witness ==
    /\ screen = "test"
    /\ last.op = "startTest"
    /\ testQueue = <<1, 0>>
    /\ testIdx = 0
    /\ testScore = [correct |-> 0, total |-> 2]

\* C14: answerTest never modifies testQueue, and the deck indices
\* testQueue[testIdx] current at the answerTest calls of one test session are
\* pairwise distinct.
C14_NoCardTwice ==
    /\ [][last'.op = "answerTest" => testQueue' = testQueue]_vars
    /\ [](\A p1, p2 \in 1..Len(testLog.shown) :
             testLog.shown[p1] = testLog.shown[p2] => p1 = p2)

C14_Witness ==
    /\ screen = "results"
    /\ last.op = "answerTest"
    /\ testLog.shown = <<1, 0>>
    /\ testQueue = <<1, 0>>

\* C15: flip toggles showBack and leaves queue, position and stats unchanged;
\* the second of two consecutive flip calls returns showBack to the value it
\* had before the first.
C15_FlipToggles ==
    /\ [][last'.op = "flip"
            => (showBack' = ~showBack /\ UNCHANGED <<queue, currentIdx, stats>>)]_vars
    /\ [][(last.op = "flip" /\ last'.op = "flip") => showBack' = last.was]_vars

C15_Witness ==
    /\ InPractice
    /\ last.op = "flip"
    /\ last.was
    /\ ~showBack
    /\ stats.seen = 1

\* C16: shuffleNow with an active deck of n cards makes the queue a permutation
\* of 0..n-1, the position 0 and showBack false, and leaves stats unchanged.
C16_ShuffleNowFrame ==
    [][last'.op = "shuffleNow"
        => /\ IsPermutation(queue', Len(activeDeck.cards))
           /\ currentIdx' = 0
           /\ showBack' = FALSE
           /\ stats' = stats]_vars

C16_Witness ==
    /\ InPractice
    /\ last.op = "shuffleNow"
    /\ stats = [seen |-> 2, correct |-> 1]
    /\ Len(queue) = MaxCards
    /\ queue # Indices(MaxCards)

\* C17: in a practice session on a deck with zero cards the queue is empty and
\* the current card absent, and neither flip nor nextPractice changes queue,
\* position, showBack or stats.
C17_EmptyDeckNoOps ==
    /\ []((InPractice /\ Len(activeDeck.cards) = 0)
            => (queue = <<>> /\ currentCard = NoCard))
    /\ [][(InPractice /\ Len(activeDeck.cards) = 0
             /\ last'.op \in {"flip", "nextPractice"})
            => UNCHANGED <<queue, currentIdx, showBack, stats>>]_vars

\* C18: with no active deck (none chosen yet, or the chosen one gone from the
\* collection) the current card is absent and neither nextPractice nor
\* answerTest changes queue, position, stats, test queue, test position, score
\* or screen.
C18_NoDeckNoOps ==
    /\ [](activeDeck = NoDeck => (currentCard = NoCard /\ currentTestCard = NoCard))
    /\ [][(activeDeck = NoDeck /\ last'.op \in {"nextPractice", "answerTest"})
            => UNCHANGED <<queue, currentIdx, stats, testQueue, testIdx,
                           testScore, screen>>]_vars

\* The text s is empty or holds blanks only.
Blank(s) == \A k \in 1..Len(s) : SubSeq(s, k, k) = " "

\* t is the text s without the blanks at its two ends.
IsTrimOf(t, s) ==
    /\ t = "" \/ (SubSeq(t, 1, 1) # " " /\ SubSeq(t, Len(t), Len(t)) # " ")
    /\ \E a \in 0..Len(s) :
          /\ a + Len(t) <= Len(s)
          /\ SubSeq(s, a + 1, a + Len(t)) = t
          /\ Blank(SubSeq(s, 1, a))
          /\ Blank(SubSeq(s, a + Len(t) + 1, Len(s)))

FrontsOf(cards) == [k \in 1..Len(cards) |-> cards[k].front]

\* The deck saved is the draft cleaned: a name that is not empty, the cards of
\* the draft whose front is not blank, in the draft's order, with their ids.
IsCleanOf(saved, draft) ==
    LET kept == SelectSeq(draft.cards, LAMBDA c : ~Blank(c.front))
    IN  /\ saved.id = draft.id
        /\ saved.name # ""
        /\ IF Blank(draft.name)
           THEN saved.name = "Untitled Deck"
           ELSE IsTrimOf(saved.name, draft.name)
        /\ Len(saved.cards) = Len(kept)
        /\ \A k \in 1..Len(kept) :
              /\ saved.cards[k].id = kept[k].id
              /\ saved.cards[k].front # ""
              /\ IsTrimOf(saved.cards[k].front, kept[k].front)
        /\ FrontsOf(draft.cards) = <<"cat", "">> => FrontsOf(saved.cards) = <<"cat">>

\* C19: the deck saveDraft sends is the draft cleaned (name not empty,
\* "Untitled Deck" for a blank name; the cards with a blank front dropped, the
\* others kept with their ids in order; fronts ["cat", ""] give the one card
\* "cat"); when the reply arrives that deck is the only deck the collection
\* gains, and every deck of the collection has a non-empty name and no card
\* with a blank front.
C19_SavedDeckIsClean ==
    /\ [][last'.op = "saveDraft"
            => IsCleanOf(pending'[Len(pending')].deck, draftDeck)]_vars
    /\ [][last'.op = "SaveReply"
            => \E i \in 1..Len(pending) :
                  /\ pending' = RemoveAt(pending, i)
                  /\ \A k \in 1..Len(decks') :
                        \/ decks'[k] = pending[i].deck
                        \/ k <= Len(decks) /\ decks'[k] = decks[k]]_vars
    /\ [](\A k \in 1..Len(decks) :
             /\ decks[k].name # ""
             /\ \A c \in 1..Len(decks[k].cards) : ~Blank(decks[k].cards[c].front))

C19_Witness ==
    /\ last.op = "saveDraft"
    /\ InEditor
    /\ isNewDeck
    /\ draftDeck.name = " "
    /\ FrontsOf(draftDeck.cards) = <<"cat", "">>
    /\ Len(pending) = 1
    /\ pending[1].deck.name = "Untitled Deck"
    /\ FrontsOf(pending[1].deck.cards) = <<"cat">>

\* C20: when the reply of saveDraft's remote call arrives, failed or not, the
\* cleaned deck is added to (new deck) or replaces its namesake in (existing
\* deck) the local collection and the screen becomes mode; when the reply of
\* deleteDeck's remote call arrives, failed or not, the deck is removed from
\* the local collection.
C20_FailedCallKeepsLocalEffect ==
    /\ [][last'.op = "SaveReply"
            => \E i \in 1..Len(pending) :
                  LET clean == pending[i].deck
                  IN  /\ pending' = RemoveAt(pending, i)
                      /\ decks' = IF pending[i].op = "POST"
                                  THEN decks \o <<clean>>
                                  ELSE [k \in 1..Len(decks) |->
                                          IF decks[k].id = clean.id THEN clean ELSE decks[k]]
                      /\ activeDeckId' = clean.id
                      /\ screen' = "mode"]_vars
    /\ [][last'.op = "DeleteReply"
            => \E i \in 1..Len(pending) :
                  /\ pending' = RemoveAt(pending, i)
                  /\ \A k \in 1..Len(decks') : decks'[k].id # pending[i].deck.id
                  /\ decks' = SelectSeq(decks, LAMBDA d : d.id # pending[i].deck.id)]_vars

C20_Witness ==
    /\ last = Called("SaveReply", FALSE)
    /\ screen = "mode"
    /\ Len(decks) = Len(server) + 1
    /\ activeDeckId = decks[Len(decks)].id
    /\ decks[Len(decks)].name = "Untitled Deck"
    /\ FrontsOf(decks[Len(decks)].cards) = <<"cat">>

----------------------------------------------------------------------------
\* The startup load with what the browser has stored: localStorage holds
\* nothing, or the collection a former visit left there.

\* localStorage.getItem(LS_KEY), parsed: <<>> when there is no item, else
\* <<the stored collection>>.
LocalStorages == {<<>>, << <<>> >>, << <<[id |-> "mine", name |-> "Mine", cards |-> <<>>]>> >>}

\* The initial state of useLocalStorageState(key, initial):
\* raw ? JSON.parse(raw) : initial
useLocalStorageState(raw, initial) == IF raw = <<>> THEN initial ELSE raw[1]

\* const STARTER_DECKS = [...]
STARTER_DECKS == StarterDecks(MaxAppCards)

LoadInit ==
    /\ \E raw \in LocalStorages, srv \in ServerCollections(MaxAppCards) :
          InitApp(useLocalStorageState(raw, STARTER_DECKS), srv)
    /\ shuffleIn = <<>>
    /\ tracked = NotTracked

LoadNext ==
    \/ \E k \in 1..Len(decks) : startModeChooser(decks[k].id)
    \/ BackButton
    \/ StartPractice
    \/ \E ok \in BOOLEAN : LoadReply(ok)
    \/ \E stored \in SUBSET (1..Len(mountDecks)) : SeedPosted(stored)
    \/ \E ok \in BOOLEAN : RefreshReply(ok)

LoadSpec == LoadInit /\ [][LoadNext]_vars

----------------------------------------------------------------------------
\* C21: at startup the decks are fetched once; a failed fetch leaves the
\* local collection as it is, a non-empty answer becomes the local collection,
\* and on an empty answer the store is seeded with the built-in starter decks
\* (every deck the seeding stores is one of STARTER_DECKS), after which the
\* collection is set from a second fetch, or left as it is when that fetch
\* fails.
C21_StartupLoad ==
    [][/\ (last'.op = "LoadReply" /\ loadPc = "get") =>
            /\ loadPc' \in {"done", "seed"}
            /\ decks' = IF last'.correct /\ server # <<>> THEN server ELSE decks
            /\ loadPc' = "seed" <=> (last'.correct /\ server = <<>>)
       /\ (last'.op = "SeedPosted" /\ loadPc = "seed") =>
            /\ decks' = decks
            /\ \A k \in 1..Len(server') :
                  \E j \in 1..Len(STARTER_DECKS) : server'[k] = STARTER_DECKS[j]
       /\ (last'.op = "RefreshReply" /\ loadPc = "refresh") =>
            /\ loadPc' = "done"
            /\ decks' = IF last'.correct THEN server ELSE decks
       /\ loadPc = "done" => loadPc' = "done"]_vars

----------------------------------------------------------------------------
\* One practice session that goes on for any number of nextPractice calls,
\* with no shuffleNow and no restart, on decks of 0..MaxCards cards; one
\* nextPractice call, any of them, is followed until its card is current again.

DrillInit ==
    /\ InitApp(StarterDecks(MaxCards), <<>>)
    /\ shuffleIn = <<>>
    /\ tracked = NoneTracked

DrillNext ==
    \/ \E k \in 1..Len(decks) : startModeChooser(decks[k].id)
    \/ StartPractice
    \/ \E correct \in BOOLEAN : InPractice /\ nextPracticeOn(correct)

DrillSpec == DrillInit /\ [][DrillNext]_vars

\* The card shown by the practice screen: queue[currentIdx]
Current == At(queue, currentIdx)

----------------------------------------------------------------------------
\* C22: in a session without shuffleNow or restart, a card answered with
\* nextPractice(true) is not current again before every other card of the
\* queue has been current at least once since that call, whatever the answers
\* given in between.
C22_KnownCardWaits ==
    (InPractice /\ tracked.card >= 0 /\ tracked.correct /\ Current = tracked.card)
        => tracked.due = {}

\* A card answered correctly in a deck of MaxCards cards is current again, the
\* answer before having been a wrong one.
C22_Witness ==
    /\ InPractice
    /\ Len(queue) = MaxCards
    /\ tracked.card >= 0 /\ tracked.correct
    /\ Current = tracked.card
    /\ tracked.due = {}
    /\ last = Called("nextPractice", FALSE)

----------------------------------------------------------------------------
\* C23: in a session without shuffleNow or restart on a deck of n cards, a
\* card answered with nextPractice(false) is current again after exactly
\* min(2, n - 1) further nextPractice calls and not before, whatever the
\* answers of those calls.
C23_MissedCardReturns ==
    (InPractice /\ tracked.card >= 0 /\ ~tracked.correct) =>
        /\ tracked.calls <= Min(2, Len(queue) - 1)
        /\ (Current = tracked.card) <=> (tracked.calls = Min(2, Len(queue) - 1))

\* A card answered wrongly in a deck of MaxCards cards is current again two
\* calls later, the second of them a correct answer.
C23_Witness ==
    /\ InPractice
    /\ Len(queue) = MaxCards
    /\ tracked.card >= 0 /\ ~tracked.correct
    /\ tracked.calls = 2
    /\ Current = tracked.card
    /\ last = Called("nextPractice", TRUE)

----------------------------------------------------------------------------
\* C27: in every state of a practice session reached by session start,
\* nextPractice, shuffleNow and flip, currentIdx is 0: the queue's head is the
\* current card and nextPractice never moves the position.
C27_HeadIsCurrent == screen = "practice" => currentIdx = 0

\* MaxSeen answers, the last one wrong, were given on a deck of MaxCards cards,
\* the card shown then turned over.
C27_Witness ==
    /\ InPractice
    /\ Len(queue) = MaxCards
    /\ stats.seen = MaxSeen
    /\ stats.correct = MaxSeen - 1
    /\ last.op = "flip"
    /\ showBack
    /\ currentIdx = 0

----------------------------------------------------------------------------
\* One practice session in which nextPractice keeps being called: while the
\* practice screen is shown, a call of "Wrong" or "Got it" always comes.

LiveInit ==
    /\ InitApp(StarterDecks(MaxCards), <<>>)
    /\ shuffleIn = <<>>
    /\ tracked = NotTracked

LiveSpec ==
    /\ LiveInit
    /\ [][DrillNext]_vars
    /\ WF_vars(\E correct \in BOOLEAN : InPractice /\ nextPracticeOn(correct))

\* C28: in a practice session in which nextPractice is called for ever, every
\* card of the queue is eventually the current card, whatever the answers
\* given: no card is starved.
C28_NoCardStarved ==
    \A k \in 0..(MaxCards - 1) :
        [](InPractice /\ k \in CardsOf(queue)
              => <>(InPractice /\ queue # <<>> /\ Current = k))

----------------------------------------------------------------------------
\* Practice and test sessions shown on a cast display: a collection of one
\* deck of 0..MaxTestCards cards, the cast session attached and detached at
\* any time.

CastInit ==
    /\ \E n \in 0..MaxTestCards : InitApp(<<Deck(1, n)>>, <<>>)
    /\ shuffleIn = <<>>
    /\ tracked = NotTracked

CastNext ==
    \/ \E k \in 1..Len(decks) : startModeChooser(decks[k].id)
    \/ BackButton
    \/ StartPractice
    \/ flip
    \/ \E correct \in BOOLEAN : InPractice /\ nextPractice(correct)
    \/ startTest
    \/ \E correct \in BOOLEAN : InTest /\ answerTest(correct)
    \/ \E session \in CastSessions : sessionChanged(session)

CastSpec == CastInit /\ [][CastNext]_vars

\* C24: every message a step hands to the cast display reflects the state
\* that step leaves: a card message carries the card that is current after the
\* step, showBack false, total = the length of the session's queue and the
\* 1-based position idx with 1 <= idx <= total; a results message carries the
\* final testScore, and one is sent exactly by the step that takes the test
\* screen to the results screen (while a cast session is held).
C24_CastReflectsState ==
    [][/\ \A i \in 1..Len(sent') :
            LET m == sent'[i]
            IN  IF m.type = "card"
                THEN /\ m.showBack = FALSE
                     /\ showBack' = FALSE
                     /\ 1 <= m.idx /\ m.idx <= m.total
                     /\ \/ /\ screen' = "practice"
                           /\ m.card = currentCard'
                           /\ m.card # NoCard
                           /\ m.total = Len(queue')
                           /\ m.idx = currentIdx' + 1
                        \/ /\ screen' = "test"
                           /\ m.card = currentTestCard'
                           /\ m.card # NoCard
                           /\ m.total = Len(testQueue')
                           /\ m.idx = testIdx' + 1
                ELSE /\ m.type = "results"
                     /\ screen' = "results"
                     /\ m.score = testScore'
       /\ (castSession # Null /\ screen = "test" /\ screen' = "results")
            <=> (\E i \in 1..Len(sent') : sent'[i].type = "results")]_vars

\* The second card of a test on MaxTestCards cards was announced to the display.
C24_Witness ==
    /\ screen = "test"
    /\ Len(testQueue) = MaxTestCards
    /\ testIdx = 1
    /\ sent = <<CardMsg(currentTestCard, 2, MaxTestCards)>>

----------------------------------------------------------------------------
\* onFrontChange on every draft of up to MaxDraftCards cards: the editor is
\* open as in SaveInit, a hint may have been typed into one card, and one
\* front is changed.

DraftPatches == {[hint |-> "h"]}

DraftNext ==
    \/ /\ last.op = "onNameChange"
       /\ InEditor
       /\ \E k \in 1..Len(draftDeck.cards), patch \in DraftPatches :
             updateDraftCard(draftDeck.cards[k].id, patch)
    \/ /\ last.op \in {"onNameChange", "updateDraftCard"}
       /\ InEditor
       /\ \E k \in 1..Len(draftDeck.cards), value \in DraftFronts :
             onFrontChange(draftDeck.cards[k].id, value)

DraftSpec == SaveInit /\ [][DraftNext]_vars

\* A card whose front, back and hint are all empty
IsBlankCard(c) ==
    \A f \in {"front", "back", "hint"} : f \in DOMAIN c => c[f] \in {"", Undefined}

BlankCount(cards) == Cardinality({k \in 1..Len(cards) : IsBlankCard(cards[k])})

\* An onFrontChange step that changes the front of card k of the draft only
\* and appends at most one blank card, and that only when the card's front
\* was empty, the value typed is not blank and the draft, the value typed in,
\* holds no blank card.
FrontChangeOf(k) ==
    LET old == draftDeck.cards
        new == draftDeck'.cards
    IN  /\ k \in 1..Len(old)
        /\ Len(new) \in {Len(old), Len(old) + 1}
        /\ \A j \in 1..Len(old) : j # k => new[j] = old[j]
        /\ new[k] = [old[k] EXCEPT !.front = new[k].front]
        /\ draftDeck' = [draftDeck EXCEPT !.cards = new]
        /\ Len(new) = Len(old) + 1 =>
              /\ IsBlankCard(new[Len(new)])
              /\ \A j \in 1..Len(old) : old[j].id # new[Len(new)].id
              /\ old[k].front = ""
              /\ ~Blank(new[k].front)
              /\ \A j \in 1..Len(old) : ~IsBlankCard(new[j])

\* C25 as stated: every onFrontChange call changes only the front of its card
\* and appends at most one blank card, under the three conditions only, and
\* therefore never raises the number of fully blank cards above one when it
\* was at most one.
C25_FrontChangeKeepsOneBlank ==
    [][last'.op = "onFrontChange" =>
          /\ \E k \in 1..Len(draftDeck.cards) : FrontChangeOf(k)
          /\ BlankCount(draftDeck.cards) <= 1 => BlankCount(draftDeck'.cards) <= 1]_vars

\* C25, amended: every onFrontChange call changes only the front of its card
\* and appends at most one blank card, under the three conditions only; a
\* call that appends leaves exactly one blank card, and a call raises the
\* number of blank cards (by one) only by emptying the front of a card whose
\* back and hint are empty.
C25_FrontChange ==
    [][last'.op = "onFrontChange" =>
          /\ \E k \in 1..Len(draftDeck.cards) : FrontChangeOf(k)
          /\ Len(draftDeck'.cards) > Len(draftDeck.cards) =>
                BlankCount(draftDeck'.cards) = 1
          /\ BlankCount(draftDeck'.cards) <= BlankCount(draftDeck.cards) + 1
          /\ BlankCount(draftDeck'.cards) > BlankCount(draftDeck.cards) =>
                \/ Len(draftDeck'.cards) > Len(draftDeck.cards)
                \/ \E k \in 1..Len(draftDeck.cards) :
                      /\ draftDeck.cards[k].front # ""
                      /\ draftDeck'.cards[k].front = ""
                      /\ IsBlankCard(draftDeck'.cards[k])]_vars

\* "cat" was typed into the empty front of the first card of a draft of
\* MaxDraftCards cards whose last card is blank: no card was appended.
C25_WitnessKept ==
    /\ last.op = "onFrontChange"
    /\ InEditor
    /\ Len(draftDeck.cards) = MaxDraftCards
    /\ draftDeck.cards[1].front = "cat"
    /\ draftDeck.cards[1].back = ""
    /\ IsBlankCard(draftDeck.cards[MaxDraftCards])
    /\ nextUid = MaxDraftCards

\* "cat" was typed into the only card of a draft and a blank card appended.
C25_Witness ==
    /\ last.op = "onFrontChange"
    /\ InEditor
    /\ Len(draftDeck.cards) = 2
    /\ nextUid = 2
    /\ draftDeck.cards[1].front = "cat"
    /\ IsBlankCard(draftDeck.cards[2])

----------------------------------------------------------------------------
\* C26: in every reachable state, the completions of the startup fetch and of
\* pending saves included, the application is displayable: on the mode,
\* practice and test screens activeDeckId names a deck of the collection and
\* the current card's index lies within that deck's cards; on the editor
\* screen there is a draft.
C26_Displayable ==
    /\ screen \in {"mode", "practice", "test"} =>
          /\ activeDeck # NoDeck
          /\ (screen = "practice" /\ queue # <<>>) =>
                At(queue, currentIdx) \in 0..(Len(activeDeck.cards) - 1)
          /\ (screen = "test" /\ testQueue # <<>>) =>
                At(testQueue, testIdx) \in 0..(Len(activeDeck.cards) - 1)
    /\ screen = "editor" => draftDeck # NoDeck

----------------------------------------------------------------------------
\* Saves racing with each other and with the startup load: the client starts
\* on a store that holds its collection, decks are opened, edited and
\* created, "Save changes" is pressed up to MaxInFlight times, and the replies
\* of the saves and of the startup GET /decks arrive in any order.

RaceNext ==
    \/ \E k \in 1..Len(decks) : startModeChooser(decks[k].id)
    \/ addDeck
    \/ \E k \in 1..Len(decks) : startEditDeck(decks[k].id)
    \/ \E value \in Names : onNameChange(value)
    \/ issued < MaxInFlight /\ saveDraft
    \/ \E i \in 1..Len(pending), ok \in BOOLEAN : SaveReply(i, ok)
    \/ \E ok \in BOOLEAN : LoadReply(ok)

RaceSpec == EditorInit /\ [][RaceNext]_vars

\* C29: a deck that saveDraft has added to or replaced in the local
\* collection stays there with the saved content whatever the interleaving
\* with the startup fetch: the answer of the fetch, requested at mount (before
\* any save) and arriving after the save has completed, neither removes nor
\* reverts the deck just saved.
C29_FetchKeepsSavedDeck ==
    [][(last.op = "SaveReply" /\ activeDeck # NoDeck /\ last'.op = "LoadReply")
          => FindDeck(decks', activeDeckId) = activeDeck]_vars

\* C30: the ids of the decks of the local collection are pairwise distinct in
\* every reachable state, also when saveDraft is called again for the same new
\* draft while an earlier call awaits its reply, and whether the remote calls
\* succeed or fail.
C30_DeckIdsDistinct ==
    \A j, k \in 1..Len(decks) : j # k => decks[j].id # decks[k].id

====
